---- MODULE Spec2Model ----
(***************************************************************************)
(* Model of the tuya-backend service: the signed request client with its   *)
(* token cache (src/tuya.js), the fixed-interval telemetry poller with its *)
(* failure counter and self-restart, the broadcast hub, and the today      *)
(* aggregation and consumption queries (src/index.js).                     *)
(*                                                                         *)
(* Time is the millisecond clock Date.now() reads.  Every await of an      *)
(* upstream call or of a storage call is a suspension point: the code      *)
(* before it and the code after it are separate atomic steps, and any      *)
(* other task may run in between (single-threaded event loop).             *)
(***************************************************************************)
EXTENDS Integers, Sequences, FiniteSets, TLC

(* ------------------------------ bounds -------------------------------- *)

\* Poll ticks explored (setInterval itself never stops).
MaxCycles == 3
\* GET /switch-status requests explored.
MaxRequests == 1
\* WebSocket connections explored.
MaxClients == 2
\* Milliseconds the clock may advance one by one after a timer instant.
MaxSkew == 1
\* Calls that may still be awaited when the clock advances (the calls that
\* overlap within one clock instant are not bounded).
MaxInFlight == 1
\* Samples in the store when a today query is made.
MaxSamples == 3

(* ------------------------- program constants -------------------------- *)

\* const maxConsecutiveFailures = 40; scaled down to 2 so that the threshold
\* is reached, and passed, within MaxCycles ticks.
maxConsecutiveFailures == 2
\* setInterval(pollDeviceStatus, 5000)
pollInterval == 5000
\* setTimeout(..., 10000)
restartDelay == 10000
\* 60 * 1000: the cache is refreshed one minute before expiry
refreshMargin == 60000


\* cachedToken = null
NoToken == 0

(* ------------------------------- state -------------------------------- *)

VARIABLES
    now,                 \* Date.now()
    nextTick,            \* instant at which the interval timer fires next
    started,             \* poll cycles started so far
    cachedToken,         \* tuya.js: let cachedToken
    cachedTokenExpire,   \* tuya.js: let cachedTokenExpire
    tokenRequests,       \* GET /v1.0/token requests sent upstream so far
    consecutiveFailures, \* index.js: let consecutiveFailures
    task,                \* poll cycles and /switch-status requests
    store,               \* the device_data collection, in insertion order
    readyState,          \* per connection: "none", "open", "closing", "closed"
    inbox,               \* per connection: payloads handed to client.send
    bcasts,              \* every call of broadcast(), in call order
    exitTimers,          \* due instants of the pending process.exit timers
    scheduled,           \* process.exit timers set so far
    exited,              \* process.exit(1) has run
    peakFailures,        \* history: greatest value consecutiveFailures had
    maxRefreshAt,        \* history: greatest start + expire_time - 60000 of
                         \*          a token fetch that succeeded
    lastFetch,           \* history: the token fetch that succeeded last
    connSeq,             \* history: Len(bcasts) when the connection opened
    closeSeq,            \* history: Len(bcasts) when it stopped being open
    serverOffset,        \* hours the server's local zone is ahead of UTC
    chart,               \* last result of getTodayDataFromDB, with its input
    consumption,         \* last answer of GET /today-consumption, with its input
    mainChart,           \* last answer of GET /main-chart/data, with its input
    switchAck            \* last answer of POST /switch, with its input

clockVars == <<now, nextTick, started>>
cacheVars == <<cachedToken, cachedTokenExpire, maxRefreshAt, lastFetch>>
failVars == <<consecutiveFailures, peakFailures>>
connVars == <<readyState, connSeq, closeSeq>>
sentVars == <<inbox, bcasts>>
exitVars == <<exitTimers, scheduled>>
aggVars == <<serverOffset, chart, consumption, mainChart, switchAck>>

vars == <<clockVars, cacheVars, tokenRequests, failVars, task, store,
          connVars, sentVars, exitVars, exited, aggVars>>

Polls == 1..MaxCycles
Reqs == (MaxCycles + 1)..(MaxCycles + MaxRequests)
Tasks == Polls \cup Reqs
Clients == 1..MaxClients

Max(S) == CHOOSE x \in S : \A y \in S : y <= x
Min(S) == CHOOSE x \in S : \A y \in S : x <= y

\* expire_time values the token endpoint may declare (the code adds them to
\* a millisecond instant): one shorter than the margin, one that ends right
\* after the next tick.
Lifetimes == {7200, 65001}
NominalLifetime == Min(Lifetimes)

(* --------------------------- upstream answers ------------------------- *)

\* res.data.result of GET /v1.0/devices/{id}/status: a list of (code, value)
\* pairs, or absent, or a value that is not a list (a string, say).
\* switch_1 is a boolean upstream; it is written 1 / 0.
Entry(c, v) == [code |-> c, value |-> v]
Status(items) == [present |-> TRUE, list |-> TRUE, items |-> items]
NoStatus == [present |-> FALSE, list |-> FALSE, items |-> << >>]
NotAList == [present |-> TRUE, list |-> FALSE, items |-> << >>]
StatusOn == Status(<<Entry("switch_1", 1), Entry("cur_current", 180),
                     Entry("cur_power", 4176), Entry("cur_voltage", 2322)>>)
StatusNoSwitch == Status(<<Entry("cur_power", 1000)>>)
PollStatuses == {NoStatus, NotAList, StatusOn, StatusNoSwitch}

(* ------------------------ src/tuya.js: the cache ---------------------- *)

\* Mutant: the cached token is still used at its refresh instant.
CacheFreshInclusive(tok, expire, t) == tok # NoToken /\ t <= expire

\* if (cachedToken && now < cachedTokenExpire) return cachedToken;
CacheFresh(tok, expire, t) == tok # NoToken /\ t < expire

\* Mutant: the expiry is not counted from the start of the request.
TokenExpiryNoStart(t0, lifetime) == lifetime - refreshMargin

\* cachedTokenExpire = now + res.data.result.expire_time - 60 * 1000
TokenExpiry(t0, lifetime) == t0 + lifetime - refreshMargin

(* ----------------------- src/index.js: broadcast ---------------------- *)

\* wss.clients holds the connections that are open or closing.
WssClients == {c \in Clients : readyState[c] \in {"open", "closing"}}

\* Mutant: no test of readyState.
EveryClient == WssClients

\* if (client.readyState === 1) client.send(json);
Receivers == {c \in WssClients : readyState[c] = "open"}

\* broadcast(data): one more call, its payload handed to every receiver.
Broadcast(payload) ==
    /\ bcasts' = Append(bcasts, payload)
    /\ inbox' = [c \in Clients |->
                   IF c \in Receivers THEN Append(inbox[c], Len(bcasts) + 1)
                                      ELSE inbox[c]]

\* getValue(statusArray, code); the quotients by 10 are kept as tenths:
\* the result is the pair <<whole, tenths>>.
RECURSIVE Find(_, _)
Find(items, code) ==
    IF items = << >> THEN << >>
    ELSE IF Head(items).code = code THEN <<Head(items)>>
    ELSE Find(Tail(items), code)

\* Mutant: every code is divided by 10.
getValueScaleAll(status, code) ==
    IF ~status.present \/ ~status.list THEN <<0, 0>>
    ELSE LET item == Find(status.items, code) IN
         IF item = << >> THEN <<0, 0>>
         ELSE <<item[1].value \div 10, item[1].value % 10>>

getValue(status, code) ==
    IF ~status.present \/ ~status.list THEN <<0, 0>>
    ELSE LET item == Find(status.items, code) IN
         IF item = << >> THEN <<0, 0>>
         ELSE IF code \in {"cur_voltage", "cur_power"}
              THEN <<item[1].value \div 10, item[1].value % 10>>
              ELSE <<item[1].value, 0>>

\* Mutant: the reading is stamped when it is broadcast.
ReadingAtBroadcast(doc) ==
    [kind |-> "reading", time |-> now,
     current |-> getValue(doc.status, "cur_current"),
     voltage |-> getValue(doc.status, "cur_voltage"),
     power |-> getValue(doc.status, "cur_power")]

\* const transformed = { time, current, voltage, power }
Reading(doc) ==
    [kind |-> "reading", time |-> doc.timestamp,
     current |-> getValue(doc.status, "cur_current"),
     voltage |-> getValue(doc.status, "cur_voltage"),
     power |-> getValue(doc.status, "cur_power")]

\* { error: "Server restarting ...", timestamp }
ErrorNotice(t) == [kind |-> "error", time |-> t]

(* ------------------------------- tasks -------------------------------- *)

\* pc: "idle" (not started), "token" (awaiting the token request),
\* "status" (awaiting the status request), "insert" (awaiting insertOne),
\* "done".  tnow is getAccessToken's local `now`, req the serial number of
\* the task's token request, doc the sample built by the cycle, startedAt
\* the instant of the cycle's tick, http the status of the response sent.
IdleTask ==
    [pc |-> "idle", tnow |-> 0, req |-> 0, token |-> NoToken,
     doc |-> [timestamp |-> 0, status |-> NoStatus], startedAt |-> 0,
     http |-> 0]

\* No result yet.
NoChart == [timezone |-> "none", buckets |-> << >>]
NoConsumption ==
    [timezone |-> "none", http |-> 0, found |-> FALSE, kwh |-> 0, cost |-> 0,
     dataPoints |-> 0, totalNum |-> 0]
NoMainChart == [timezone |-> "none"]
NoSwitchAck == [http |-> 0]

\* The state once the module is loaded: the database is connected, the
\* interval timer is set, nothing is cached, nobody is connected.
Loaded ==
    /\ nextTick = now + pollInterval
    /\ started = 0
    /\ cachedToken = NoToken
    /\ cachedTokenExpire = 0
    /\ tokenRequests = 0
    /\ consecutiveFailures = 0
    /\ task = [t \in Tasks |-> IdleTask]
    /\ readyState = [c \in Clients |-> "none"]
    /\ inbox = [c \in Clients |-> << >>]
    /\ bcasts = << >>
    /\ exitTimers = {}
    /\ scheduled = 0
    /\ exited = FALSE
    /\ peakFailures = 0
    /\ maxRefreshAt = 0
    /\ lastFetch = [t0 |-> 0, lifetime |-> 0, token |-> NoToken]
    /\ connSeq = [c \in Clients |-> 0]
    /\ closeSeq = [c \in Clients |-> 0]
    /\ chart = NoChart
    /\ consumption = NoConsumption
    /\ mainChart = NoMainChart
    /\ switchAck = NoSwitchAck

Init ==
    /\ now = 0
    /\ store = << >>
    /\ serverOffset = 0
    /\ Loaded

(* --------------------- src/tuya.js: getAccessToken -------------------- *)

\* fetchDeviceStatus(deviceId) up to its first suspension point: the call of
\* getAccessToken returns the cached token, and the status request is sent,
\* or it sends a token request and waits for the answer.
CallFetch(t, at) ==
    IF CacheFresh(cachedToken, cachedTokenExpire, now)
    THEN /\ task' = [task EXCEPT ![t] = [IdleTask EXCEPT
                         !.pc = "status", !.token = cachedToken,
                         !.startedAt = at]]
         /\ tokenRequests' = tokenRequests
    ELSE /\ task' = [task EXCEPT ![t] = [IdleTask EXCEPT
                         !.pc = "token", !.tnow = now,
                         !.req = tokenRequests + 1, !.startedAt = at]]
         /\ tokenRequests' = tokenRequests + 1

\* A task that has returned; only the response it sent is kept.
Finished(code) == [IdleTask EXCEPT !.pc = "done", !.http = code]

(* -------------------- src/index.js: pollDeviceStatus ------------------ *)

\* Mutant: the escalation fires one failure early.
ThresholdOffByOne(failures) == failures >= maxConsecutiveFailures - 1

\* if (consecutiveFailures >= maxConsecutiveFailures)
ThresholdReached(failures) == failures >= maxConsecutiveFailures

\* Mutant: the counter is not reset.
KeepOnSuccess(failures) == failures

\* consecutiveFailures = 0, right after the fetch returned
ResetOnSuccess(failures) == 0

\* Mutant: the date is taken once, when the module is loaded.
DocTimestampAtLoad(c) == 0

\* timestamp: new Date()
DocTimestamp(c) == now

\* The catch block of pollDeviceStatus.
Catch(c) ==
    /\ consecutiveFailures' = consecutiveFailures + 1
    /\ peakFailures' = Max({peakFailures, consecutiveFailures + 1})
    /\ task' = [task EXCEPT ![c] = Finished(0)]
    /\ IF ThresholdReached(consecutiveFailures + 1)
       THEN /\ Broadcast(ErrorNotice(now))
            /\ exitTimers' = exitTimers \cup {now + restartDelay}
            /\ scheduled' = scheduled + 1
       ELSE UNCHANGED <<sentVars, exitVars>>

\* Mutant: the error of a request is counted like the error of a poll.
ThrowToPoller(t) == Catch(t)

\* The error of a failed upstream call reaches the caller: the catch block
\* of the poll cycle, or the catch block of the request handler (500).
Throw(t) ==
    IF t \in Polls
    THEN Catch(t)
    ELSE /\ task' = [task EXCEPT ![t] = Finished(500)]
         /\ UNCHANGED <<failVars, sentVars, exitVars>>

\* Mutant: a tick waits until the cycle before it has ended.
PollTickAfterPrevious ==
    /\ ~exited
    /\ started < MaxCycles
    /\ now = nextTick
    /\ started > 0 => task[started].pc = "done"
    /\ started' = started + 1
    /\ nextTick' = nextTick + pollInterval
    /\ CallFetch(started + 1, now)
    /\ UNCHANGED <<now, cacheVars, failVars, store, connVars, sentVars,
                   exitVars, exited, aggVars>>

\* setInterval(pollDeviceStatus, 5000): a tick starts a cycle, whatever the
\* earlier cycles are doing.
PollTick ==
    /\ ~exited
    /\ started < MaxCycles
    /\ now = nextTick
    /\ started' = started + 1
    /\ nextTick' = nextTick + pollInterval
    /\ CallFetch(started + 1, now)
    /\ UNCHANGED <<now, cacheVars, failVars, store, connVars, sentVars,
                   exitVars, exited, aggVars>>

\* Mutant: an expiry already cached is never moved back.
TokenOkKeepLaterExpiry(t, lifetime) ==
    /\ ~exited
    /\ task[t].pc = "token"
    /\ cachedToken' = task[t].req
    /\ cachedTokenExpire' =
          Max({cachedTokenExpire, TokenExpiry(task[t].tnow, lifetime)})
    /\ maxRefreshAt' =
          Max({maxRefreshAt, task[t].tnow + lifetime - refreshMargin})
    /\ lastFetch' = [t0 |-> task[t].tnow, lifetime |-> lifetime,
                     token |-> task[t].req]
    /\ task' = [task EXCEPT ![t].pc = "status", ![t].token = task[t].req]
    /\ UNCHANGED <<clockVars, tokenRequests, failVars, store, connVars,
                   sentVars, exitVars, exited, aggVars>>

\* The token request of task t is answered: the cache is written and the
\* status request is sent.
TokenOk(t, lifetime) ==
    /\ ~exited
    /\ task[t].pc = "token"
    /\ cachedToken' = task[t].req
    /\ cachedTokenExpire' = TokenExpiry(task[t].tnow, lifetime)
    /\ maxRefreshAt' =
          Max({maxRefreshAt, task[t].tnow + lifetime - refreshMargin})
    /\ lastFetch' = [t0 |-> task[t].tnow, lifetime |-> lifetime,
                     token |-> task[t].req]
    /\ task' = [task EXCEPT ![t].pc = "status", ![t].token = task[t].req]
    /\ UNCHANGED <<clockVars, tokenRequests, failVars, store, connVars,
                   sentVars, exitVars, exited, aggVars>>

\* Mutant: a failed token request is sent again at once.
TokenFailRetry(t) ==
    /\ ~exited
    /\ task[t].pc = "token"
    /\ tokenRequests' = tokenRequests + 1
    /\ task' = [task EXCEPT ![t].req = tokenRequests + 1]
    /\ UNCHANGED <<clockVars, cacheVars, failVars, store, connVars,
                   sentVars, exitVars, exited, aggVars>>

\* The token request fails (or its answer carries no result): the error
\* propagates, the cache is left as it is.
TokenFail(t) ==
    /\ ~exited
    /\ task[t].pc = "token"
    /\ Throw(t)
    /\ UNCHANGED <<clockVars, cacheVars, tokenRequests, store, connVars,
                   exited, aggVars>>

\* The status request of a poll cycle is answered: the counter is reset,
\* the sample is built and insertOne is called.
StatusOk(c, status) ==
    /\ ~exited
    /\ c \in Polls
    /\ task[c].pc = "status"
    /\ consecutiveFailures' = ResetOnSuccess(consecutiveFailures)
    /\ task' = [task EXCEPT ![c].pc = "insert",
                            ![c].doc = [timestamp |-> DocTimestamp(c),
                                        status |-> status]]
    /\ UNCHANGED <<clockVars, cacheVars, tokenRequests, peakFailures, store,
                   connVars, sentVars, exitVars, exited, aggVars>>

\* The status request fails.
StatusFail(t) ==
    /\ ~exited
    /\ task[t].pc = "status"
    /\ Throw(t)
    /\ UNCHANGED <<clockVars, cacheVars, tokenRequests, store, connVars,
                   exited, aggVars>>

\* A persisted sample; startedAt and insertedAt are history: the instant of
\* the cycle's tick and the instant insertOne resolved.
Sample(ts, status, tick, at) ==
    [timestamp |-> ts, status |-> status, startedAt |-> tick,
     insertedAt |-> at]

\* insertOne resolves: the sample is in the collection, the reading is
\* broadcast.
InsertOk(c) ==
    /\ ~exited
    /\ task[c].pc = "insert"
    /\ store' = Append(store, Sample(task[c].doc.timestamp,
                                     task[c].doc.status,
                                     task[c].startedAt, now))
    /\ Broadcast(Reading(task[c].doc))
    /\ task' = [task EXCEPT ![c] = Finished(0)]
    /\ UNCHANGED <<clockVars, cacheVars, tokenRequests, failVars, connVars,
                   exitVars, exited, aggVars>>

\* insertOne rejects.
InsertFail(c) ==
    /\ ~exited
    /\ task[c].pc = "insert"
    /\ Catch(c)
    /\ UNCHANGED <<clockVars, cacheVars, tokenRequests, store, connVars,
                   exited, aggVars>>

\* Mutant: the timer's callback exits only if the polls still fail.
ExitIfStillFailing ==
    /\ ~exited
    /\ \E d \in exitTimers : d <= now
    /\ ThresholdReached(consecutiveFailures)
    /\ exited' = TRUE
    /\ UNCHANGED <<clockVars, cacheVars, tokenRequests, failVars, task,
                   store, connVars, sentVars, exitVars, aggVars>>

\* setTimeout(() => process.exit(1), 10000) fires.
Exit ==
    /\ ~exited
    /\ \E d \in exitTimers : d <= now
    /\ exited' = TRUE
    /\ UNCHANGED <<clockVars, cacheVars, tokenRequests, failVars, task,
                   store, connVars, sentVars, exitVars, aggVars>>

(* ---------------------- src/index.js: /switch-status ------------------ *)

\* status.find((s) => s.code === "switch_1") and the three answers.
SwitchStatusCode(status) ==
    IF ~status.present \/ ~status.list THEN 500
    ELSE IF Find(status.items, "switch_1") = << >> THEN 404
    ELSE 200

\* A GET /switch-status request arrives.
StartRequest ==
    /\ ~exited
    /\ \E r \in Reqs :
          /\ task[r].pc = "idle"
          /\ \A q \in Reqs : q < r => task[q].pc # "idle"
          /\ CallFetch(r, now)
    /\ UNCHANGED <<clockVars, cacheVars, failVars, store, connVars,
                   sentVars, exitVars, exited, aggVars>>

\* The status request of a /switch-status request is answered.
ReqStatusOk(r, status) ==
    /\ ~exited
    /\ r \in Reqs
    /\ task[r].pc = "status"
    /\ task' = [task EXCEPT ![r] = Finished(SwitchStatusCode(status))]
    /\ UNCHANGED <<clockVars, cacheVars, tokenRequests, failVars, store,
                   connVars, sentVars, exitVars, exited, aggVars>>

(* --------------------------- the environment -------------------------- *)

\* A subscriber connects: the connection is open and in wss.clients.
Connect(c) ==
    /\ ~exited
    /\ readyState[c] = "none"
    /\ \A b \in Clients : b < c => readyState[b] # "none"
    /\ readyState' = [readyState EXCEPT ![c] = "open"]
    /\ connSeq' = [connSeq EXCEPT ![c] = Len(bcasts)]
    /\ UNCHANGED <<clockVars, cacheVars, tokenRequests, failVars, task,
                   store, closeSeq, sentVars, exitVars, exited, aggVars>>

\* The closing handshake of a connection starts: readyState 2.
StartClose(c) ==
    /\ ~exited
    /\ readyState[c] = "open"
    /\ readyState' = [readyState EXCEPT ![c] = "closing"]
    /\ closeSeq' = [closeSeq EXCEPT ![c] = Len(bcasts)]
    /\ UNCHANGED <<clockVars, cacheVars, tokenRequests, failVars, task,
                   store, connSeq, sentVars, exitVars, exited, aggVars>>

\* The connection is closed and removed from wss.clients.
Closed(c) ==
    /\ ~exited
    /\ readyState[c] = "closing"
    /\ readyState' = [readyState EXCEPT ![c] = "closed"]
    /\ UNCHANGED <<clockVars, cacheVars, tokenRequests, failVars, task,
                   store, connSeq, closeSeq, sentVars, exitVars, exited,
                   aggVars>>

\* The timers that are set: the interval timer and the exit timers.
Due == (IF started < MaxCycles THEN {nextTick} ELSE {}) \cup exitTimers

\* The calls being awaited.
InFlight == {t \in Tasks : task[t].pc \in {"token", "status", "insert"}}

\* The clock reaches the next timer; a timer that is due fires before the
\* clock moves on.
TimerReached ==
    /\ ~exited
    /\ Due # {}
    /\ \A d \in Due : d > now
    /\ now' = Min(Due)
    /\ UNCHANGED <<nextTick, started, cacheVars, tokenRequests, failVars,
                   task, store, connVars, sentVars, exitVars, exited,
                   aggVars>>

\* The same, while no more than MaxInFlight calls are being awaited.
AdvanceToTimer ==
    /\ ~exited
    /\ Cardinality(InFlight) <= MaxInFlight
    /\ Due # {}
    /\ \A d \in Due : d > now
    /\ now' = Min(Due)
    /\ UNCHANGED <<nextTick, started, cacheVars, tokenRequests, failVars,
                   task, store, connVars, sentVars, exitVars, exited,
                   aggVars>>

\* A millisecond passes.
Millisecond ==
    /\ ~exited
    /\ Cardinality(InFlight) <= MaxInFlight
    /\ \A d \in Due : d > now
    /\ now % pollInterval < MaxSkew
    /\ now' = now + 1
    /\ UNCHANGED <<nextTick, started, cacheVars, tokenRequests, failVars,
                   task, store, connVars, sentVars, exitVars, exited,
                   aggVars>>

(* ------------------- src/index.js: the today queries ------------------ *)

HourMs == 3600000
DayMs == 24 * HourMs
\* 6 * 60 * 60 * 1000: the fixed offset of Asia/Dhaka
DhakaOffsetMs == 6 * HourMs

\* getUserTimezone(req): the zones the engine has to support.
Timezones == {"UTC", "Asia/Dhaka"}

\* setUTCHours(0, 0, 0, 0): the start of the UTC day of an instant.
StartOfUtcDay(t) == t - (t % DayMs)

\* setHours(0, 0, 0, 0): the start of the day of an instant in the zone the
\* server runs in.
StartOfServerDay(t) ==
    StartOfUtcDay(t + serverOffset * HourMs) - serverOffset * HourMs

\* getTodayStartInTimezone(timezone)
getTodayStartInTimezone(timezone) ==
    IF timezone = "Asia/Dhaka"
    THEN StartOfUtcDay(now + DhakaOffsetMs) - DhakaOffsetMs
    ELSE StartOfServerDay(now)

\* getTodayEndInTimezone(timezone): 23:59:59.999 of the same day
getTodayEndInTimezone(timezone) ==
    IF timezone = "Asia/Dhaka"
    THEN StartOfUtcDay(now + DhakaOffsetMs) + (DayMs - 1) - DhakaOffsetMs
    ELSE StartOfServerDay(now) + (DayMs - 1)

\* { $hour: { date: "$timestamp", timezone: "Asia/Dhaka" } }
BucketHour(timezone, ts) == ((ts + DhakaOffsetMs) % DayMs) \div HourMs

\* $unwind: "$status", for the samples of a set of positions of the store:
\* the facts <<position, index, code, value>>; a sample without a status
\* list yields none (a status that is no list is unwound as one fact, which
\* has no code).
Unwind(positions) ==
    {<<i, k>> \in positions \X (1..8) :
        /\ store[i].status.present
        /\ store[i].status.list
        /\ k <= Len(store[i].status.items)}

RECURSIVE SumOf(_, _)
\* The sum of the values of the function f over the finite set S.
SumOf(S, f) ==
    IF S = {} THEN 0
    ELSE LET x == CHOOSE y \in S : TRUE IN f[x] + SumOf(S \ {x}, f)

\* An average as a fraction; the two $group stages: the average of the values
\* of one code in one bucket, divided by `scale`, and 0 for a bucket that has
\* no value of that code.
Fraction(n, d) == [num |-> n, den |-> d]
Zero == Fraction(0, 1)
BucketAverage(positions, code, scale) ==
    LET facts == {f \in Unwind(positions) :
                     store[f[1]].status.items[f[2]].code = code}
        value == [f \in facts |-> store[f[1]].status.items[f[2]].value]
    IN IF facts = {} THEN Zero
       ELSE Fraction(SumOf(facts, value), scale * Cardinality(facts))

\* createEmptyTodayData() and the merge of the aggregation's rows.
getTodayDataFromDB(timezone) ==
    LET todayStart == getTodayStartInTimezone(timezone)
        todayEnd == getTodayEndInTimezone(timezone)
        matched == {i \in DOMAIN store :
                       /\ store[i].timestamp >= todayStart
                       /\ store[i].timestamp <= todayEnd}
        InHour(h) ==
            {i \in matched : BucketHour(timezone, store[i].timestamp) = h}
    IN [h \in 0..23 |->
           [hour |-> h,
            power |-> BucketAverage(InHour(h), "cur_power", 10),
            current |-> BucketAverage(InHour(h), "cur_current", 1),
            voltage |-> BucketAverage(InHour(h), "cur_voltage", 10)]]

\* The today part of GET /main-chart/data.
TodayData(timezone) ==
    /\ ~exited
    /\ chart' = [timezone |-> timezone,
                 buckets |-> getTodayDataFromDB(timezone)]
    /\ UNCHANGED <<clockVars, cacheVars, tokenRequests, failVars, task,
                   store, connVars, sentVars, exitVars, exited, serverOffset,
                   consumption, mainChart, switchAck>>

RECURSIVE FindLast(_, _)
\* $arrayToObject: the value of a key is the one pushed last.
FindLast(items, code) ==
    IF items = << >> THEN << >>
    ELSE IF items[Len(items)].code = code THEN <<items[Len(items)]>>
    ELSE FindLast(SubSeq(items, 1, Len(items) - 1), code)

\* { "statusObj.switch_1": true, "statusObj.cur_power": { $ne: null } }
SwitchedOn(doc) ==
    /\ doc.status.present
    /\ doc.status.list
    /\ FindLast(doc.status.items, "switch_1") # << >>
    /\ FindLast(doc.status.items, "switch_1")[1].value = 1
    /\ FindLast(doc.status.items, "cur_power") # << >>

CurPower(doc) == FindLast(doc.status.items, "cur_power")[1].value

RECURSIVE SortByTimestamp(_)
\* { $sort: { timestamp: 1 } }: the positions in ascending timestamp order
\* (equal timestamps in insertion order).
SortByTimestamp(positions) ==
    IF positions = {} THEN << >>
    ELSE LET first == CHOOSE i \in positions : \A j \in positions :
                          \/ store[i].timestamp < store[j].timestamp
                          \/ store[i].timestamp = store[j].timestamp /\ i <= j
         IN <<first>> \o SortByTimestamp(positions \ {first})

\* $setWindowFields / $shift by -1 and the two $addFields: powerKw times
\* durationHours of the k-th row, as cur_power * milliseconds, that is the
\* row's kWh times 10000 * 3600000.  In that unit 0.0001 kWh is KwhUnit and
\* 0.001 kWh, which costs 0.01, is CostUnit.
KwhUnit == HourMs
CostUnit == 10 * HourMs
IntervalKwh(rows, k) ==
    IF k = 1 THEN 0
    ELSE CurPower(store[rows[k]]) *
             (store[rows[k]].timestamp - store[rows[k - 1]].timestamp)

\* Mutant: the digits beyond are cut off.
Truncate(n, d) == n \div d

\* parseFloat(x.toFixed(digits)) of x = n / (d * 10^digits) >= 0, in units
\* of 10^-digits: the nearest, the larger of two that are equally near.
ToFixed(n, d) == (2 * n + d) \div (2 * d)

\* The pipeline of /today-consumption and the answer built from its result:
\* kwh in units of 0.0001 kWh, cost = totalKwh * 10 in units of 0.01, and
\* totalNum = totalKwh * 10000 * 3600000.
TodayConsumptionResult(timezone) ==
    LET todayStart == getTodayStartInTimezone(timezone)
        matched == {i \in DOMAIN store :
                       /\ store[i].timestamp >= todayStart
                       /\ store[i].timestamp <= now
                       /\ SwitchedOn(store[i])}
        rows == SortByTimestamp(matched)
        total == SumOf(DOMAIN rows,
                       [k \in DOMAIN rows |-> IntervalKwh(rows, k)])
        \* $map raises an error on a status that is neither a list nor
        \* null, and the catch block answers 500
        broken == \E i \in DOMAIN store :
                      /\ store[i].timestamp >= todayStart
                      /\ store[i].timestamp <= now
                      /\ store[i].status.present
                      /\ ~store[i].status.list
    IN IF broken
       THEN [NoConsumption EXCEPT !.timezone = timezone, !.http = 500]
       ELSE IF rows = << >>
       THEN [timezone |-> timezone, http |-> 200, found |-> FALSE,
             kwh |-> 0, cost |-> 0, dataPoints |-> 0, totalNum |-> 0]
       ELSE [timezone |-> timezone, http |-> 200, found |-> TRUE,
             kwh |-> ToFixed(total, KwhUnit),
             cost |-> ToFixed(total, CostUnit),
             dataPoints |-> Len(rows), totalNum |-> total]

\* GET /today-consumption
TodayConsumption(timezone) ==
    /\ ~exited
    /\ consumption' = TodayConsumptionResult(timezone)
    /\ UNCHANGED <<clockVars, cacheVars, tokenRequests, failVars, task,
                   store, connVars, sentVars, exitVars, exited, serverOffset,
                   chart, mainChart, switchAck>>

\* GET /today-consumption when the aggregation rejects: the catch block's
\* 500, which carries no figure.
TodayConsumptionFail(timezone) ==
    /\ ~exited
    /\ consumption' = [NoConsumption EXCEPT !.timezone = timezone,
                                            !.http = 500]
    /\ UNCHANGED <<clockVars, cacheVars, tokenRequests, failVars, task,
                   store, connVars, sentVars, exitVars, exited, serverOffset,
                   chart, mainChart, switchAck>>

(* --------------- src/index.js: the week and month queries ------------- *)

\* for (let i = 6; i >= 0; i--) and sevenDaysAgo.getDate() - 6
WeekBack == 6
\* for (let i = 29; i >= 0; i--)
MonthBack == 29
\* thirtyDaysAgo.getDate() - 30
MonthWindowBack == 30

RECURSIVE DaysBefore(_, _)
\* date.setDate(date.getDate() - i): the same time of day i days earlier
\* (the server's zone has a fixed offset), taken day by day.
DaysBefore(t, i) == IF i = 0 THEN t ELSE DaysBefore(t - DayMs, i - 1)

\* A calendar date "YYYY-MM-DD" is written as the number of its day since
\* 1970-01-01; the strings compare as these numbers do.
\* toISOString().split("T")[0]: the UTC date of an instant.
IsoDate(t) == t \div DayMs

\* getLocalDateString(date, timezone): the Dhaka date, or else
\* toLocaleDateString("en-CA"), the date in the zone the server runs in.
getLocalDateString(date, timezone) ==
    IF timezone = "Asia/Dhaka"
    THEN IsoDate(date + DhakaOffsetMs)
    ELSE IsoDate(date + serverOffset * HourMs)

\* { date: dateString, power: 0, current: 0, voltage: 0 }
EmptyDay(d) ==
    [date |-> d, power |-> Zero, current |-> Zero, voltage |-> Zero]

\* The loop of the two skeletons: i runs from `back` down to 0.
EmptyDays(back, timezone) ==
    [k \in 1..(back + 1) |->
        EmptyDay(getLocalDateString(DaysBefore(now, back + 1 - k), timezone))]

\* createEmptyWeekData(timezone)
createEmptyWeekData(timezone) == EmptyDays(WeekBack, timezone)

\* createEmptyMonthData(timezone)
createEmptyMonthData(timezone) == EmptyDays(MonthBack, timezone)

\* { $dateToString: { format: "%Y-%m-%d", date: "$timestamp", timezone } }:
\* the database knows the zones by name.
DateToString(timezone, ts) ==
    IsoDate(ts + (IF timezone = "Asia/Dhaka" THEN DhakaOffsetMs ELSE 0))

\* localSevenDaysAgo: the lower bound of the week's $match.
WeekStart(timezone) ==
    IF timezone = "Asia/Dhaka"
    THEN StartOfUtcDay(DaysBefore(now, WeekBack) + DhakaOffsetMs)
    ELSE StartOfServerDay(DaysBefore(now, WeekBack))

\* localThirtyDaysAgo: the lower bound of the month's $match.
MonthStart(timezone) ==
    IF timezone = "Asia/Dhaka"
    THEN DaysBefore(now, MonthWindowBack) + DhakaOffsetMs
    ELSE DaysBefore(now, MonthWindowBack)

\* The pipeline from `start` on and the merge of its rows: the row of a date
\* goes to the first entry of the skeleton that carries the date
\* (findIndex); a field of the row that is null leaves the 0.
MergeDays(skeleton, start, timezone) ==
    [k \in DOMAIN skeleton |->
        LET rows == {i \in DOMAIN store :
                        /\ store[i].timestamp >= start
                        /\ DateToString(timezone, store[i].timestamp) =
                               skeleton[k].date}
        IN IF \A j \in 1..(k - 1) : skeleton[j].date # skeleton[k].date
           THEN [date |-> skeleton[k].date,
                 power |-> BucketAverage(rows, "cur_power", 10),
                 current |-> BucketAverage(rows, "cur_current", 1),
                 voltage |-> BucketAverage(rows, "cur_voltage", 10)]
           ELSE skeleton[k]]

\* getWeekDataFromDB(timezone)
getWeekDataFromDB(timezone) ==
    MergeDays(createEmptyWeekData(timezone), WeekStart(timezone), timezone)

\* getMonthlyDataFromDB(timezone)
getMonthlyDataFromDB(timezone) ==
    MergeDays(createEmptyMonthData(timezone), MonthStart(timezone), timezone)

(* -------------------- src/index.js: /main-chart/data ------------------ *)

\* The three queries of Promise.all([...]).
Queries == {"today", "week", "month"}

\* Mutant: the results are awaited one by one and a failure is skipped.
RejectsWhenAllFail(failed) == failed = Queries

\* Promise.all rejects as soon as one of its promises does.
PromiseAllRejects(failed) == failed # {}

\* The answer of the handler when the queries of `failed` reject: the catch
\* block's 500, or the three summaries.
MainChartResponse(timezone, failed) ==
    IF PromiseAllRejects(failed)
    THEN [timezone |-> timezone, failed |-> failed, http |-> 500,
          success |-> FALSE, data |-> << >>]
    ELSE [timezone |-> timezone, failed |-> failed, http |-> 200,
          success |-> TRUE,
          data |-> [q \in Queries \ failed |->
                      CASE q = "today" -> getTodayDataFromDB(timezone)
                        [] q = "week" -> getWeekDataFromDB(timezone)
                        [] q = "month" -> getMonthlyDataFromDB(timezone)]]

\* GET /main-chart/data
MainChart(timezone, failed) ==
    /\ ~exited
    /\ mainChart' = MainChartResponse(timezone, failed)
    /\ UNCHANGED <<clockVars, cacheVars, tokenRequests, failVars, task,
                   store, connVars, sentVars, exitVars, exited, serverOffset,
                   chart, consumption, switchAck>>

(* ------------------------ src/index.js: /switch ----------------------- *)

\* req.body.state: a boolean, or a value of another type.
Body(type, value) == [type |-> type, value |-> value]
Bodies ==
    {Body("boolean", "true"), Body("boolean", "false"), Body("string", "on")}

\* What `await controlDeviceSwitch(deviceId, state)` yields: it throws, or
\* it returns nothing, or the upstream response, whose success flag is
\* true, false or missing.
ControlResult(thrown, present, success) ==
    [thrown |-> thrown, present |-> present, success |-> success]
ControlResults ==
    {ControlResult(TRUE, FALSE, "missing"),
     ControlResult(FALSE, FALSE, "missing")} \cup
    {ControlResult(FALSE, TRUE, f) : f \in {"true", "false", "missing"}}

\* Mutant: success only when the flag says so.
SucceededStrict(result) == result.present /\ result.success = "true"

\* if (result && result.success !== false)
Succeeded(result) == result.present /\ result.success # "false"

\* The answer of the handler: 400 without calling upstream when state is
\* not a boolean; else the catch block's 500 when the call throws, 200 or
\* 500 on its result.
SwitchResponse(body, result) ==
    IF body.type # "boolean"
    THEN [body |-> body, called |-> FALSE,
          result |-> ControlResult(FALSE, FALSE, "missing"),
          http |-> 400, success |-> FALSE]
    ELSE [body |-> body, called |-> TRUE, result |-> result,
          http |-> IF ~result.thrown /\ Succeeded(result) THEN 200 ELSE 500,
          success |-> ~result.thrown /\ Succeeded(result)]

\* POST /switch
Switch(body, result) ==
    /\ ~exited
    /\ switchAck' = SwitchResponse(body, result)
    /\ UNCHANGED <<clockVars, cacheVars, tokenRequests, failVars, task,
                   store, connVars, sentVars, exitVars, exited, serverOffset,
                   chart, consumption, mainChart>>

(* --------------------------- specifications --------------------------- *)

\* The poller, the token cache and the /switch-status requests; no
\* subscriber connects.
Next ==
    \/ PollTick
    \/ \E t \in Tasks, lifetime \in Lifetimes : TokenOk(t, lifetime)
    \/ \E t \in Tasks : TokenFail(t)
    \/ \E c \in Polls : StatusOk(c, StatusOn)
    \/ \E t \in Tasks : StatusFail(t)
    \/ \E c \in Polls : InsertOk(c)
    \/ \E c \in Polls : InsertFail(c)
    \/ Exit
    \/ StartRequest
    \/ \E r \in Reqs, status \in PollStatuses : ReqStatusOk(r, status)
    \/ AdvanceToTimer
    \/ Millisecond

Spec == Init /\ [][Next]_vars

\* The poller and the broadcast hub with subscribers that connect and close;
\* the token endpoint declares the nominal lifetime, the clock is read at the
\* timer instants, no request arrives.
NextHub ==
    \/ PollTick
    \/ \E c \in Polls : TokenOk(c, NominalLifetime)
    \/ \E c \in Polls : TokenFail(c)
    \/ \E c \in Polls, status \in PollStatuses : StatusOk(c, status)
    \/ \E c \in Polls : StatusFail(c)
    \/ \E c \in Polls : InsertOk(c)
    \/ \E c \in Polls : InsertFail(c)
    \/ Exit
    \/ \E c \in Clients : Connect(c)
    \/ \E c \in Clients : StartClose(c)
    \/ \E c \in Clients : Closed(c)
    \/ AdvanceToTimer

SpecHub == Init /\ [][NextHub]_vars

\* The today queries on a store that holds up to MaxSamples samples.  The
\* samples were taken, with timestamps that increase, around the midnights of
\* the two zones; the status lists are ones the device may have sent; the
\* query is made at AggNow (03:00 UTC, 09:00 in Dhaka) on a server that runs
\* in UTC or in the Dhaka zone.
AggDay == 10 * DayMs
AggNow == AggDay + 3 * HourMs
AggTimes ==
    {AggDay - 6 * HourMs - 1, AggDay - 6 * HourMs, AggDay - HourMs,
     AggDay + HourMs, AggDay + 2 * HourMs, AggDay + 2 * HourMs + 1200000}
On(power) == Status(<<Entry("switch_1", 1), Entry("cur_power", power)>>)
Off == Status(<<Entry("switch_1", 0), Entry("cur_power", 0)>>)
AggStatuses == {On(30), On(8), Off, StatusNoSwitch}
ServerOffsets == {0, 6}

AggStores ==
    {s \in UNION {[1..n -> {Sample(ts, st, ts, ts) :
                               ts \in AggTimes, st \in AggStatuses}] :
                     n \in 0..MaxSamples} :
        \A i \in 1..(Len(s) - 1) : s[i].timestamp < s[i + 1].timestamp}

InitAgg ==
    /\ now = AggNow
    /\ store \in AggStores
    /\ serverOffset \in ServerOffsets
    /\ Loaded

NextAgg ==
    \/ \E timezone \in Timezones : TodayData(timezone)
    \/ \E timezone \in Timezones : TodayConsumption(timezone)

SpecAgg == InitAgg /\ [][NextAgg]_vars

\* GET /main-chart/data on a store that holds up to MaxSamples samples taken
\* in the last month: in the first hours of the earliest day of the week and
\* of the month, later that day, yesterday and today.  The request is made
\* at 03:00, 13:00 or 19:00 UTC (09:00, 19:00, 01:00 in Dhaka); each of the
\* three queries may fail.
CalNows == {AggDay + 3 * HourMs, AggDay + 13 * HourMs, AggDay + 19 * HourMs}
CalTimes ==
    {DaysBefore(AggDay, MonthBack) - 6 * HourMs + 1800000,
     DaysBefore(AggDay, MonthBack) + 2 * HourMs,
     AggDay - 6 * DayMs - 4 * HourMs, AggDay - 6 * DayMs + HourMs,
     AggDay - 12 * HourMs, AggDay + HourMs}
CalStatuses == {StatusOn, StatusNoSwitch}

CalStores ==
    {s \in UNION {[1..n -> {Sample(ts, st, ts, ts) :
                               ts \in CalTimes, st \in CalStatuses}] :
                     n \in 0..MaxSamples} :
        \A i \in 1..(Len(s) - 1) : s[i].timestamp < s[i + 1].timestamp}

InitCal ==
    /\ now \in CalNows
    /\ store \in CalStores
    /\ serverOffset \in ServerOffsets
    /\ Loaded

NextCal ==
    \E timezone \in Timezones, failed \in SUBSET Queries :
        MainChart(timezone, failed)

SpecCal == InitCal /\ [][NextCal]_vars

\* The requests the HTTP surface has received so far, by the answers kept
\* and the status requests started.
Served ==
    Cardinality({r \in Reqs : task[r].pc # "idle"}) +
    (IF switchAck.http # 0 THEN 1 ELSE 0) +
    (IF mainChart.timezone # "none" THEN 1 ELSE 0) +
    (IF consumption.timezone # "none" THEN 1 ELSE 0)

\* The poller alone, with any number of calls still awaited while the clock
\* moves on.  The event loop runs the callback of a timer that is due, so
\* the tick, the exit and the clock are fair; an upstream or storage call
\* may stay unanswered for ever.
NextExit ==
    \/ PollTick
    \/ \E c \in Polls : TokenOk(c, NominalLifetime)
    \/ \E c \in Polls : TokenFail(c)
    \/ \E c \in Polls : StatusOk(c, StatusOn)
    \/ \E c \in Polls : StatusFail(c)
    \/ \E c \in Polls : InsertOk(c)
    \/ \E c \in Polls : InsertFail(c)
    \/ Exit
    \/ TimerReached

SpecExit ==
    /\ Init
    /\ [][NextExit]_vars
    /\ WF_vars(PollTick)
    /\ WF_vars(Exit)
    /\ WF_vars(TimerReached)

\* The poller when every call is answered before the next tick, so that the
\* cycles do not overlap, and every token and status request succeeds; the
\* insert succeeds or fails.
NextSerial ==
    \/ PollTick
    \/ \E c \in Polls, lifetime \in Lifetimes : TokenOk(c, lifetime)
    \/ \E c \in Polls, status \in PollStatuses : StatusOk(c, status)
    \/ \E c \in Polls : InsertOk(c)
    \/ \E c \in Polls : InsertFail(c)
    \/ InFlight = {} /\ TimerReached

SpecSerial == Init /\ [][NextSerial]_vars

\* The poller together with the requests of the HTTP surface: the status
\* request, the switch command, the chart and the consumption queries, each
\* with an outcome that succeeds and outcomes that fail; MaxRequests
\* requests arrive, at any moment of the poll cycles.
NextReq ==
    \/ PollTick
    \/ \E t \in Tasks : TokenOk(t, NominalLifetime)
    \/ \E t \in Tasks : TokenFail(t)
    \/ \E c \in Polls : StatusOk(c, StatusOn)
    \/ \E t \in Tasks : StatusFail(t)
    \/ \E c \in Polls : InsertOk(c)
    \/ \E c \in Polls : InsertFail(c)
    \/ Exit
    \/ Served < MaxRequests /\ StartRequest
    \/ \E r \in Reqs, status \in PollStatuses : ReqStatusOk(r, status)
    \/ /\ Served < MaxRequests
       /\ \E body \in Bodies, result \in ControlResults : Switch(body, result)
    \/ /\ Served < MaxRequests
       /\ \E timezone \in Timezones, failed \in {{}, {"week"}} :
             MainChart(timezone, failed)
    \/ /\ Served < MaxRequests
       /\ \E timezone \in Timezones : TodayConsumption(timezone)
    \/ /\ Served < MaxRequests
       /\ \E timezone \in Timezones : TodayConsumptionFail(timezone)
    \/ AdvanceToTimer

\* The service is started at the midnight that begins the day of AggDay, on
\* a server in UTC, with an empty collection.
InitReq ==
    /\ now = AggDay
    /\ store = << >>
    /\ serverOffset = 0
    /\ Loaded

SpecReq == InitReq /\ [][NextReq]_vars

(* ------------------------------ claims -------------------------------- *)

\* The calls of broadcast() that carried the error notice.
ErrorNotices == Cardinality({i \in DOMAIN bcasts : bcasts[i].kind = "error"})

\* Steps of a task, as seen from outside: it calls getAccessToken, its
\* status fetch returns to the poll cycle, the poll cycle ends in its catch
\* block.
CallStep(t) == task[t].pc = "idle" /\ task'[t].pc # "idle"
FetchReturned(c) == task[c].pc = "status" /\ task'[c].pc = "insert"
PollFailed(c) ==
    /\ task[c].pc \in {"token", "status", "insert"}
    /\ task'[c].pc = "done"
    /\ store' = store

\* C1: the escalation fires once per process run: at most one error notice
\* is broadcast and at most one termination is scheduled, whatever fails
\* after the threshold was reached.
ClaimC1 == ErrorNotices <= 1 /\ scheduled <= 1

\* C2: in the state right after a poll cycle's status fetch returned,
\* consecutiveFailures is 0; in every other step it grows by one exactly when
\* a poll cycle fails, so it counts the failures since the last successful
\* fetch.
ThmC2 ==
    [][IF \E c \in Polls : FetchReturned(c)
       THEN consecutiveFailures' = 0
       ELSE consecutiveFailures' = consecutiveFailures +
                (IF \E c \in Polls : PollFailed(c) THEN 1 ELSE 0)]_vars

WitC2 ==
    /\ consecutiveFailures = 0
    /\ peakFailures > 0
    /\ \E c \in Polls : task[c].pc = "insert"

\* C3: the process exits only through the escalation: a timer is set only
\* in a failing step that leaves the counter at the threshold or above and
\* broadcasts the error notice, and the process exits only with a timer set,
\* after the counter reached the threshold and the notice was broadcast.
ThmC3 ==
    [][/\ exitTimers' # exitTimers \/ scheduled' # scheduled =>
            /\ \E c \in Polls : PollFailed(c)
            /\ consecutiveFailures' >= maxConsecutiveFailures
            /\ Len(bcasts') = Len(bcasts) + 1
            /\ bcasts'[Len(bcasts')].kind = "error"
       /\ exited' # exited =>
            /\ exitTimers # {}
            /\ peakFailures >= maxConsecutiveFailures
            /\ ErrorNotices >= 1]_vars

WitC3 == exited

\* C4 as stated: a call of getAccessToken made before start + expire_time -
\* 60000 of a token fetch that succeeded sends no token request.
ClaimC4 ==
    [][\A t \in Tasks :
          CallStep(t) /\ now < maxRefreshAt =>
              tokenRequests' = tokenRequests]_vars

\* C4 amended: a call of getAccessToken made before start + expire_time -
\* 60000 of the token fetch that wrote the cache last returns that fetch's
\* token and sends no token request.
ThmC4 ==
    [][\A t \in Tasks :
          /\ CallStep(t)
          /\ lastFetch.token # NoToken
          /\ now < lastFetch.t0 + lastFetch.lifetime - 60000
          => /\ tokenRequests' = tokenRequests
             /\ task'[t].token = lastFetch.token]_vars

WitC4 ==
    \E t \in Tasks :
        task[t].pc = "status" /\ task[t].req = 0 /\ task[t].token # NoToken

\* C5 as stated: when the token is needed and the cache is past its refresh
\* instant, one token request is sent, also for callers that arrive while a
\* refresh is in flight: no two token requests are ever in flight together.
ClaimC5 == Cardinality({t \in Tasks : task[t].pc = "token"}) <= 1

\* C5 amended: every call of getAccessToken that finds no token cached, or
\* the clock at or past cachedTokenExpire, sends exactly one token request
\* of its own, also while another one is in flight; a call that finds the
\* cache usable sends none, and nothing else sends one.
ThmC5 ==
    [][IF \E t \in Tasks : CallStep(t)
       THEN tokenRequests' = tokenRequests +
                (IF cachedToken = NoToken \/ now >= cachedTokenExpire
                 THEN 1 ELSE 0)
       ELSE tokenRequests' = tokenRequests]_vars

WitC5 ==
    \E t, u \in Tasks :
        t # u /\ task[t].pc = "token" /\ task[u].pc = "token"

\* C6 as stated: whatever the interleaving of the poll cycles, a sample
\* inserted later has a strictly greater timestamp.
ClaimC6 ==
    \A i, j \in DOMAIN store :
        i < j => store[i].timestamp < store[j].timestamp

\* C6 amended: of two samples whose cycles do not overlap (the insert of
\* one had resolved at an earlier clock instant than the tick of the other's
\* cycle) the first is inserted first and the second has a strictly greater
\* timestamp.
ThmC6 ==
    \A i, j \in DOMAIN store :
        store[i].insertedAt < store[j].startedAt =>
            i < j /\ store[i].timestamp < store[j].timestamp

WitC6 ==
    \E i, j \in DOMAIN store : store[i].insertedAt < store[j].startedAt

\* Whether connection c was open when broadcast number m was called.
OpenAtCall(c, m) ==
    /\ readyState[c] # "none"
    /\ connSeq[c] < m
    /\ readyState[c] = "open" \/ m <= closeSeq[c]

Occurrences(seq, x) == Cardinality({i \in DOMAIN seq : seq[i] = x})

\* C7: a payload is handed exactly once to every connection that was open
\* when broadcast was called, and never to a connection that was closing or
\* closed then or that opened later; the broadcast of a reading leaves the
\* failure counter alone, whoever was skipped.
ThmC7 ==
    /\ [](\A c \in Clients : \A m \in 1..Len(bcasts) :
             Occurrences(inbox[c], m) = IF OpenAtCall(c, m) THEN 1 ELSE 0)
    /\ [][Len(bcasts') > Len(bcasts)
            /\ bcasts'[Len(bcasts')].kind = "reading"
          => consecutiveFailures' = consecutiveFailures]_vars

WitC7 ==
    \E m \in 1..Len(bcasts) : \E a, b, c \in Clients :
        /\ Occurrences(inbox[a], m) = 1
        /\ readyState[b] \in {"closing", "closed"}
        /\ closeSeq[b] < m
        /\ Occurrences(inbox[b], m) = 0
        /\ bcasts[m].kind = "reading"

\* The samples a consumption answer is about, as the claims describe them:
\* those of today (from the handler's start of today to the request) with
\* switch_1 = true and a cur_power.
QualifyingToday(timezone) ==
    {i \in DOMAIN store :
        /\ store[i].timestamp >= getTodayStartInTimezone(timezone)
        /\ store[i].timestamp <= now
        /\ store[i].status.present
        /\ Find(store[i].status.items, "switch_1") # << >>
        /\ Find(store[i].status.items, "switch_1")[1].value = 1
        /\ Find(store[i].status.items, "cur_power") # << >>}

\* The samples of today that report the switch off.
OffToday(timezone) ==
    {i \in DOMAIN store :
        /\ store[i].timestamp >= getTodayStartInTimezone(timezone)
        /\ store[i].timestamp <= now
        /\ store[i].status.present
        /\ Find(store[i].status.items, "switch_1") # << >>
        /\ Find(store[i].status.items, "switch_1")[1].value = 0}

\* The qualifying sample before q, if any.
Previous(Q, q) ==
    LET before == {p \in Q : store[p].timestamp < store[q].timestamp}
    IN IF before = {} THEN {}
       ELSE {CHOOSE p \in before :
                 \A r \in before : store[r].timestamp <= store[p].timestamp}

\* cur_power_raw * (timestamp - previous qualifying timestamp), summed over
\* the samples of Q that have a previous one and that `counts` admits: the
\* energy in the unit of IntervalKwh.
EnergyOver(Q, counts(_, _)) ==
    SumOf({q \in Q : \E p \in Previous(Q, q) : counts(p, q)},
          [q \in Q |->
              IF Previous(Q, q) = {} THEN 0
              ELSE LET p == CHOOSE r \in Previous(Q, q) : TRUE
                   IN Find(store[q].status.items, "cur_power")[1].value *
                          (store[q].timestamp - store[p].timestamp)])

Abs(x) == IF x < 0 THEN -x ELSE x

\* C8: time during which the switch was off contributes nothing: the kwh of
\* the answer is the energy of the intervals between two qualifying samples
\* that hold no sample with switch_1 = false.
ClaimC8 ==
    consumption.timezone # "none" =>
        LET Q == QualifyingToday(consumption.timezone)
            off == OffToday(consumption.timezone)
            Active(p, q) ==
                \A o \in off : ~(/\ store[p].timestamp < store[o].timestamp
                                 /\ store[o].timestamp < store[q].timestamp)
        IN consumption.kwh = ToFixed(EnergyOver(Q, Active), KwhUnit)

ZoneOffsetMs(timezone) == IF timezone = "Asia/Dhaka" THEN 6 * HourMs ELSE 0
LocalMidnight(timezone) ==
    StartOfUtcDay(now + ZoneOffsetMs(timezone)) - ZoneOffsetMs(timezone)
LocalHour(timezone, ts) ==
    ((ts + ZoneOffsetMs(timezone)) % DayMs) \div HourMs

\* C10: bucket h of the today summary averages exactly the samples between
\* local midnight and the next local midnight of the requested zone whose
\* local hour in that zone is h (so one sample with cur_power 1000 gives
\* 100.0 in the bucket of its local hour and 0 elsewhere).
ClaimC10 ==
    chart.timezone # "none" =>
        \A h \in 0..23 :
            LET mine == {i \in DOMAIN store :
                          /\ store[i].timestamp >= LocalMidnight(chart.timezone)
                          /\ store[i].timestamp <
                                 LocalMidnight(chart.timezone) + DayMs
                          /\ LocalHour(chart.timezone, store[i].timestamp) = h}
            IN chart.buckets[h].power = BucketAverage(mine, "cur_power", 10)

\* Today's calendar date in a supported zone.
LocalToday(timezone) == IsoDate(now + ZoneOffsetMs(timezone))

\* The dates of a summary are n consecutive calendar days that end today in
\* the zone asked for.
DaysEndingToday(days, n, timezone) ==
    /\ DOMAIN days = 1..n
    /\ \A k \in 1..(n - 1) : days[k + 1].date = days[k].date + 1
    /\ days[n].date = LocalToday(timezone)

\* C11: the week summary has exactly 7 entries and the month summary exactly
\* 30, the dates are consecutive calendar days in ascending order, and the
\* last one is today's date in the requested zone.
ClaimC11 ==
    mainChart.timezone # "none" /\ mainChart.success =>
        /\ DaysEndingToday(mainChart.data["week"], 7, mainChart.timezone)
        /\ DaysEndingToday(mainChart.data["month"], 30, mainChart.timezone)

\* A bucket of a summary carries the three averages.
FullBucket(b) ==
    \A f \in {"power", "current", "voltage"} :
        /\ f \in DOMAIN b
        /\ b[f].den > 0
        /\ b[f].num >= 0

\* C12: the answer of /main-chart/data is never partial: when a query
\* failed it is the 500 error and carries no summary; otherwise it carries
\* today with the hours 0..23 in order, week with 7 and month with 30
\* entries, every bucket with its three values, which are all 0 when the
\* store holds no sample.
ThmC12 ==
    mainChart.timezone # "none" =>
        IF mainChart.failed # {}
        THEN /\ ~mainChart.success
             /\ mainChart.http = 500
             /\ DOMAIN mainChart.data = {}
        ELSE /\ mainChart.success
             /\ DOMAIN mainChart.data = {"today", "week", "month"}
             /\ DOMAIN mainChart.data["today"] = 0..23
             /\ \A h \in 0..23 :
                   /\ mainChart.data["today"][h].hour = h
                   /\ FullBucket(mainChart.data["today"][h])
                   /\ store = << >> =>
                         \A f \in {"power", "current", "voltage"} :
                             mainChart.data["today"][h][f].num = 0
             /\ DOMAIN mainChart.data["week"] = 1..7
             /\ DOMAIN mainChart.data["month"] = 1..30
             /\ \A p \in {"week", "month"} :
                   \A k \in DOMAIN mainChart.data[p] :
                      /\ FullBucket(mainChart.data[p][k])
                      /\ store = << >> =>
                            \A f \in {"power", "current", "voltage"} :
                                mainChart.data[p][k][f].num = 0

WitC12 ==
    /\ mainChart.timezone # "none"
    /\ Cardinality(mainChart.failed) = 1
    /\ ~mainChart.success
    /\ store # << >>

\* A step of a request of the HTTP surface: a status request starts or
\* ends, or a switch, chart or consumption request is answered.
RequestStep ==
    \/ \E r \in Reqs : task'[r] # task[r]
    \/ switchAck' # switchAck
    \/ mainChart' # mainChart
    \/ consumption' # consumption

\* C13: every request ends in a structured answer (a status code with the
\* success flag that goes with it); a step of a request, failing or not,
\* leaves the failure counter, the store, the exit timers, the interval
\* timer and the poll cycles as they are; the counter changes only in a
\* step of a poll cycle.
ThmC13 ==
    /\ [](/\ \A r \in Reqs :
               task[r].pc = "done" => task[r].http \in {200, 404, 500}
          /\ switchAck.http \in {0, 200, 400, 500}
          /\ switchAck.http # 0 => (switchAck.success <=> switchAck.http = 200)
          /\ mainChart.timezone # "none" =>
                /\ mainChart.http \in {200, 500}
                /\ mainChart.success <=> mainChart.http = 200
          /\ consumption.http \in {0, 200, 500})
    /\ [][RequestStep =>
            /\ UNCHANGED <<failVars, store, exitVars, exited, clockVars,
                           sentVars>>
            /\ \A c \in Polls : task'[c] = task[c]]_vars
    /\ [][consecutiveFailures' # consecutiveFailures =>
            \E c \in Polls : task'[c] # task[c]]_vars

WitC13 ==
    /\ \E r \in Reqs : task[r].pc = "done" /\ task[r].http = 500
    /\ consecutiveFailures = 0
    /\ store # << >>
    /\ \E c \in Polls : task[c].pc \in {"token", "status", "insert"}

\* C14: a switch command with a boolean state reports success exactly when
\* the upstream call returned a response that is present and whose success
\* flag is not false, a response without the flag included; it reports
\* failure (500) when the call threw, returned nothing or returned
\* success = false.
ThmC14 ==
    switchAck.http # 0 /\ switchAck.body.type = "boolean" =>
        LET result == switchAck.result IN
        /\ switchAck.called
        /\ switchAck.success <=>
              /\ ~result.thrown
              /\ result.present
              /\ result.success \in {"true", "missing"}
        /\ switchAck.http = IF switchAck.success THEN 200 ELSE 500

WitC14 ==
    /\ switchAck.http = 200
    /\ switchAck.result.present
    /\ switchAck.result.success = "missing"

\* The value the claims give to a code of a status: 0 when the status is
\* absent, is no list or has no entry of the code; else the raw value, in
\* tenths for cur_voltage and cur_power (2322 is 232 and 2 tenths).
Scaled(status, code) ==
    IF ~status.present \/ ~status.list THEN <<0, 0>>
    ELSE IF \A k \in DOMAIN status.items : status.items[k].code # code
    THEN <<0, 0>>
    ELSE LET k == CHOOSE j \in DOMAIN status.items :
                      /\ status.items[j].code = code
                      /\ \A i \in 1..(j - 1) : status.items[i].code # code
             raw == status.items[k].value
         IN IF code = "cur_current" THEN <<raw, 0>>
            ELSE <<raw \div 10, raw % 10>>

\* C15: a reading is broadcast in the step that persists a sample, and it
\* carries that sample's timestamp and scaled values: current unscaled,
\* voltage and power divided by 10, 0 for what the status lacks (180, 232.2
\* and 417.6 for the raw values 180, 2322 and 4176).
ThmC15 ==
    [][Len(bcasts') > Len(bcasts) /\ bcasts'[Len(bcasts')].kind = "reading" =>
          /\ Len(store') = Len(store) + 1
          /\ LET sample == store'[Len(store')]
                 reading == bcasts'[Len(bcasts')]
             IN /\ reading.time = sample.timestamp
                /\ reading.current = Scaled(sample.status, "cur_current")
                /\ reading.voltage = Scaled(sample.status, "cur_voltage")
                /\ reading.power = Scaled(sample.status, "cur_power")
                /\ sample.status = StatusOn =>
                      /\ reading.current = <<180, 0>>
                      /\ reading.voltage = <<232, 2>>
                      /\ reading.power = <<417, 6>>]_vars

WitC15 ==
    \E m, n \in DOMAIN bcasts : \E i \in DOMAIN store :
        /\ bcasts[m].kind = "reading"
        /\ bcasts[m].power = <<417, 6>>
        /\ bcasts[m].current = <<180, 0>>
        /\ bcasts[n].kind = "reading"
        /\ bcasts[n].time = store[i].timestamp
        /\ store[i].status = NotAList
        /\ bcasts[n].power = <<0, 0>>

\* The readings broadcast so far.
Readings == {m \in DOMAIN bcasts : bcasts[m].kind = "reading"}

\* The places of a poll cycle in the order it passes them.
Rank(pc) ==
    CASE pc = "idle" -> 0
      [] pc = "token" -> 1
      [] pc = "status" -> 2
      [] pc = "insert" -> 3
      [] pc = "done" -> 4

\* C16: a cycle goes from idle to fetching (token, status), to persisting
\* and, with the broadcast, back to rest, never backwards; every reading
\* that was broadcast is the reading of a sample that is in the store, with
\* the sample's timestamp; there are as many readings as samples; a step in
\* which a cycle fails broadcasts no reading and stores nothing.
ThmC16 ==
    /\ [](/\ \A m \in Readings : \E i \in DOMAIN store :
                /\ bcasts[m].time = store[i].timestamp
                /\ bcasts[m] = Reading([timestamp |-> store[i].timestamp,
                                        status |-> store[i].status])
          /\ Cardinality(Readings) = Len(store))
    /\ [][\A c \in Polls :
            /\ task'[c].pc # task[c].pc =>
                  /\ Rank(task'[c].pc) > Rank(task[c].pc)
                  /\ task'[c].pc = "insert" => task[c].pc = "status"
                  /\ task[c].pc = "idle" => task'[c].pc \in {"token", "status"}
            /\ PollFailed(c) =>
                  /\ store' = store
                  /\ \/ bcasts' = bcasts
                     \/ bcasts'[Len(bcasts')].kind = "error"]_vars

WitC16 ==
    /\ Readings # {}
    /\ peakFailures > 0
    /\ \E i \in DOMAIN store : store[i].insertedAt > store[i].timestamp

\* C17: a tick that is due starts its cycle whatever the earlier cycles are
\* waiting for, each cycle at its own tick; the answer a cycle waits for can
\* arrive, and be persisted and broadcast, whatever the other cycles wait
\* for.
ThmC17 ==
    /\ ~exited /\ started < MaxCycles /\ now = nextTick => ENABLED PollTick
    /\ \A c \in Polls :
          /\ task[c].pc \in {"token", "status", "insert"} =>
                task[c].startedAt = c * pollInterval
          /\ ~exited /\ task[c].pc = "token" =>
                ENABLED TokenOk(c, NominalLifetime)
          /\ ~exited /\ task[c].pc = "status" => ENABLED StatusOk(c, StatusOn)
          /\ ~exited /\ task[c].pc = "insert" => ENABLED InsertOk(c)

WitC17 ==
    \E c, d \in Polls :
        /\ c < d
        /\ task[c].pc \in {"token", "status"}
        /\ task[d].pc = "done"
        /\ \E i \in DOMAIN store : store[i].startedAt = d * pollInterval
        /\ \E m \in Readings : bcasts[m].time = d * pollInterval

\* C18: a token request is sent only by a call of getAccessToken, one per
\* call at most, and a task calls it once: it passes token, status and
\* insert at most once each, in this order.  When a token request fails,
\* the cache and the number of requests sent stay as they are, the task is
\* over, and a poll cycle adds exactly 1 to the failure counter; no cycle
\* starts in that step.
ThmC18 ==
    [][/\ tokenRequests' # tokenRequests =>
            /\ tokenRequests' = tokenRequests + 1
            /\ \E t \in Tasks : CallStep(t) /\ task'[t].pc = "token"
       /\ \A t \in Tasks :
            /\ task'[t].pc # task[t].pc =>
                  Rank(task'[t].pc) > Rank(task[t].pc)
            /\ task[t].pc = "token" /\ task'[t].pc = "done" =>
                  /\ cachedToken' = cachedToken
                  /\ cachedTokenExpire' = cachedTokenExpire
                  /\ tokenRequests' = tokenRequests
                  /\ started' = started
                  /\ t \in Polls =>
                        consecutiveFailures' = consecutiveFailures + 1
                  /\ t \in Reqs =>
                        consecutiveFailures' = consecutiveFailures]_vars

WitC18 ==
    /\ task[1].pc = "done"
    /\ consecutiveFailures = 1
    /\ cachedToken = NoToken
    /\ started = 2
    /\ task[2].pc = "token"
    /\ tokenRequests = 2

\* The persisted samples whose calendar date in the zone is d.
SamplesOfDate(timezone, d) ==
    {i \in DOMAIN store :
        IsoDate(store[i].timestamp + ZoneOffsetMs(timezone)) = d}

\* C19: the entry of each of the 7 and of the 30 calendar days that end
\* today carries the averages over all persisted samples of that date in the
\* requested zone, those of the first local hours of the earliest date
\* included, and of no other sample.
ClaimC19 ==
    mainChart.timezone # "none" /\ mainChart.success =>
        \A p \in {"week", "month"} :
            LET days == mainChart.data[p]
                n == IF p = "week" THEN 7 ELSE 30
            IN \A k \in 1..n :
                  LET mine == SamplesOfDate(mainChart.timezone,
                                  LocalToday(mainChart.timezone) - (n - k))
                  IN /\ days[k].power = BucketAverage(mine, "cur_power", 10)
                     /\ days[k].current =
                            BucketAverage(mine, "cur_current", 1)
                     /\ days[k].voltage =
                            BucketAverage(mine, "cur_voltage", 10)

\* C20: an exit timer that is set stays set and the process does exit, no
\* earlier than the timer is due, also when the polls that follow succeed
\* and the counter is back at 0.
ThmC20 ==
    /\ (exitTimers # {}) ~> exited
    /\ [][/\ exitTimers \subseteq exitTimers'
          /\ exited' /\ ~exited => \E d \in exitTimers : d <= now]_vars

WitC20 ==
    /\ exited
    /\ consecutiveFailures = 0
    /\ store # << >>
    /\ exitTimers # {}

\* C21: when the cycles do not overlap and every fetch succeeds, the counter
\* is 0 while a cycle waits for its insert and exactly 1 after an insert
\* that failed, so it never exceeds 1, however many inserts fail, and no
\* exit timer is ever set.
ThmC21 ==
    /\ [](/\ consecutiveFailures <= 1
          /\ peakFailures <= 1
          /\ scheduled = 0
          /\ exitTimers = {}
          /\ ~exited
          /\ ErrorNotices = 0
          /\ \A c \in Polls : task[c].pc = "insert" => consecutiveFailures = 0)
    /\ [][\A c \in Polls : PollFailed(c) =>
            /\ task[c].pc = "insert"
            /\ consecutiveFailures = 0
            /\ consecutiveFailures' = 1]_vars

WitC21 ==
    /\ started = MaxCycles
    /\ \A c \in Polls : task[c].pc = "done"
    /\ store = << >>
    /\ consecutiveFailures = 1

\* C22: whatever the order in which overlapping token requests are
\* answered, the cached token and the cached expiry are those of one
\* response, the one that was handled last, the expiry being that request's
\* start + its declared lifetime - 60000; so a call that returns the cached
\* token returns that response's token, more than 60000 before the end of
\* the lifetime counted from the request's start.
ThmC22 ==
    /\ [](/\ cachedToken = lastFetch.token
          /\ cachedToken = NoToken => cachedTokenExpire = 0
          /\ cachedToken # NoToken =>
                cachedTokenExpire =
                    lastFetch.t0 + lastFetch.lifetime - 60000)
    /\ [][/\ cachedToken' # cachedToken \/ cachedTokenExpire' # cachedTokenExpire
             => \E t \in Tasks :
                   /\ task[t].pc = "token"
                   /\ task'[t].pc = "status"
                   /\ cachedToken' = task[t].req
                   /\ cachedTokenExpire' <= task[t].tnow + lastFetch'.lifetime - 60000
          /\ \A t \in Tasks :
                CallStep(t) /\ task'[t].pc = "status" =>
                   /\ task'[t].token = lastFetch.token
                   /\ task'[t].token # NoToken
                   /\ now + 60000 < lastFetch.t0 + lastFetch.lifetime]_vars

WitC22 ==
    /\ \E t \in Tasks :
          /\ task[t].pc = "status"
          /\ task[t].req = 0
          /\ task[t].token = 1
    /\ \E u \in Tasks :
          /\ task[u].pc \in {"status", "insert"}
          /\ task[u].req = 2
          /\ task[u].token = 2
    /\ lastFetch.token = 1

====
